---- MODULE Spec2Model ----
(***************************************************************************)
(* Model of kg.py: the construction of the HEAL Core CDE knowledge graph.  *)
(*                                                                         *)
(* A Python string is modelled as a sequence of one-character strings, so  *)
(* that str.split(',') and str.strip() are computed, not assumed.  The     *)
(* pyvis Network `net` is modelled by the record of the calls kg.py makes  *)
(* on it: `nodes` is the sequence of add_node calls, `edges` the sequence  *)
(* of add_edge calls, in call order.                                       *)
(***************************************************************************)
EXTENDS Integers, Sequences, FiniteSets, TLC

\* ------------------------------------------------------------------ bounds
MaxRows == 2    \* rows of the dataset
MaxLen == 4     \* length of a raw cell handed to process_entries on its own

\* ------------------------------------------------------------- strings
NAN == <<"n", "a", "n">>
EMPTY == <<>>

\* `x not in ['nan', '']` is ~Missing(x)
Missing(s) == s \in {NAN, EMPTY}

RECURSIVE SplitFrom(_, _, _, _)
SplitFrom(s, i, cur, acc) ==
    IF i > Len(s) THEN Append(acc, cur)
    ELSE IF s[i] = "," THEN SplitFrom(s, i + 1, <<>>, Append(acc, cur))
    ELSE SplitFrom(s, i + 1, Append(cur, s[i]), acc)

\* entries.split(',')
split(s) == SplitFrom(s, 1, <<>>, <<>>)

RECURSIVE lstrip(_)
lstrip(s) == IF s # <<>> /\ Head(s) = " " THEN lstrip(Tail(s)) ELSE s

RECURSIVE rstrip(_)
rstrip(s) ==
    IF s # <<>> /\ s[Len(s)] = " " THEN rstrip(SubSeq(s, 1, Len(s) - 1)) ELSE s

\* strip forgotten: the piece is taken as it is
stripNothing(s) == s

\* item.strip()
strip(s) == rstrip(lstrip(s))

\* ------------------------------------------------------------- configuration
Anchor == "Core CDE Measures"

\* the satellite columns, in the order line 117 visits them
Keys == <<"Domain", "Questionnaire", "HEAL Research Program", "Study Name", "PI Name">>

Columns == {Anchor} \cup {Keys[j] : j \in 1..Len(Keys)}

color_map ==
    [c \in Columns |->
        CASE c = "Core CDE Measures" -> "#4b0082"
          [] c = "Domain" -> "#dda0dd"
          [] c = "Questionnaire" -> "#ff1493"
          [] c = "Study Name" -> "#1f77b4"
          [] c = "PI Name" -> "#2ca02c"
          [] c = "HEAL Research Program" -> "#ffb6c1"]

shape_map ==
    [c \in Columns |->
        CASE c = "Core CDE Measures" -> "dot"
          [] c = "Domain" -> "ellipse"
          [] c = "Questionnaire" -> "square"
          [] c = "HEAL Research Program" -> "triangle"
          [] c = "Study Name" -> "text"
          [] c = "PI Name" -> "text"]

SizeScale == 30     \* the factor of the frequency-scaled size
FixedSize == 15     \* the size of every satellite node

\* A size is the exact quotient num / den.
Size(num, den) == [num |-> num, den |-> den]

\* ------------------------------------------------------------- the dataset
\* project_data: every cell a string ('nan' for an absent value, line 14).
\* The cells a column may hold in the checked datasets.
AnchorCells == {NAN, EMPTY, <<"a">>, <<"b">>}
DomainCells == {NAN, <<"b", ",", " ", "a">>}
QuestionnaireCells == {EMPTY, <<"a">>}
StudyCells == {[program |-> NAN, study |-> NAN, pi |-> NAN],
               [program |-> <<" ", "c", ",", ",", "c">>, study |-> <<"s">>, pi |-> <<"b">>]}

Rows ==
    {[c \in Columns |->
        CASE c = "Core CDE Measures" -> a
          [] c = "Domain" -> d
          [] c = "Questionnaire" -> q
          [] c = "HEAL Research Program" -> s.program
          [] c = "Study Name" -> s.study
          [] c = "PI Name" -> s.pi] :
        a \in AnchorCells, d \in DomainCells, q \in QuestionnaireCells, s \in StudyCells}

Datasets == UNION {[1..n -> Rows] : n \in 0..MaxRows}

\* ------------------------------------------------------------- state
VARIABLES
    project_data,           \* the rows handed to create_knowledge_graph
    descriptor_frequency,   \* Counter(all_descriptors)
    max_frequency,          \* max(descriptor_frequency.values())
    added_nodes,            \* the set of labels already registered
    nodes,                  \* net: the add_node calls, in order
    edges,                  \* net: the add_edge calls, in order
    entries_dict,           \* the item lists of the current row, by key
    row,                    \* index of the row `for entry in data` is at
    key,                    \* index in Keys of the next column to process
    pc,                     \* position in create_knowledge_graph
    call,                   \* arguments of a stand-alone process_entries call
    ret                     \* what that call returned

vars == <<project_data, descriptor_frequency, max_frequency, added_nodes, nodes,
          edges, entries_dict, row, key, pc, call, ret>>

KeySet == {Keys[j] : j \in 1..Len(Keys)}

\* ------------------------------------------------------------- helpers
\* all_descriptors, as a set of (row, column) positions
DescriptorCells(data) ==
    {p \in (1..Len(data)) \X Columns : ~Missing(data[p[1]][p[2]])}

\* Counter(all_descriptors)
Counter(data) ==
    LET cells == DescriptorCells(data)
        vals == {data[p[1]][p[2]] : p \in cells}
    IN [d \in vals |-> Cardinality({p \in cells : data[p[1]][p[2]] = d})]

\* max(...) of a non-empty collection of counts
Max(S) == CHOOSE m \in S : \A x \in S : x <= m

\* net.add_node(id, label=id, color=..., size=..., shape=...)
add_node(ns, id, color, size, shape) ==
    Append(ns, [id |-> id, label |-> id, color |-> color, size |-> size, shape |-> shape])

\* net.add_edge(source, to)
add_edge(es, source, to) == Append(es, <<source, to>>)

\* size=30 * (descriptor_frequency[core_cde_measure] / max_frequency)
AnchorSize(freq, maxf, core) == Size(SizeScale * freq[core], maxf)

\* RegisterAnchor restyling a node that exists: the last writer wins
RegisterAnchorRestyle(core, freq, maxf, st) ==
    IF ~Missing(core) /\ core \notin st.added
    THEN [nodes |-> add_node(st.nodes, core, color_map[Anchor],
                             AnchorSize(freq, maxf, core), shape_map[Anchor]),
          added |-> st.added \cup {core}]
    ELSE IF ~Missing(core)
    THEN [st EXCEPT !.nodes =
              [i \in 1..Len(st.nodes) |->
                  IF st.nodes[i].id = core
                  THEN [st.nodes[i] EXCEPT !.color = color_map[Anchor],
                                           !.shape = shape_map[Anchor],
                                           !.size = AnchorSize(freq, maxf, core)]
                  ELSE st.nodes[i]]]
    ELSE st

\* lines 109-113: register the anchor value of the row
RegisterAnchor(core, freq, maxf, st) ==
    IF ~Missing(core) /\ core \notin st.added
    THEN [nodes |-> add_node(st.nodes, core, color_map[Anchor],
                             AnchorSize(freq, maxf, core), shape_map[Anchor]),
          added |-> st.added \cup {core}]
    ELSE st

\* RegisterItem without the look-up in added_nodes: every item is added again
RegisterItemAlways(piece, entry_type, st) ==
    LET item == strip(piece) IN
    IF item # <<>>
    THEN [nodes |-> add_node(st.nodes, item, color_map[entry_type],
                             Size(FixedSize, 1), shape_map[entry_type]),
          added |-> st.added \cup {item},
          item_nodes |-> Append(st.item_nodes, item)]
    ELSE st

\* RegisterItem without its elif branch: a registered item is not returned
RegisterItemSkipSeen(piece, entry_type, st) ==
    LET item == strip(piece) IN
    IF item # <<>> /\ item \notin st.added
    THEN [nodes |-> add_node(st.nodes, item, color_map[entry_type],
                             Size(FixedSize, 1), shape_map[entry_type]),
          added |-> st.added \cup {item},
          item_nodes |-> Append(st.item_nodes, item)]
    ELSE st

\* lines 184-191: the body of process_entries' loop, for one piece of the cell
RegisterItem(piece, entry_type, st) ==
    LET item == strip(piece) IN
    IF item # <<>> /\ item \notin st.added
    THEN [nodes |-> add_node(st.nodes, item, color_map[entry_type],
                             Size(FixedSize, 1), shape_map[entry_type]),
          added |-> st.added \cup {item},
          item_nodes |-> Append(st.item_nodes, item)]
    ELSE IF item # <<>>
    THEN [st EXCEPT !.item_nodes = Append(@, item)]
    ELSE st

RECURSIVE RegisterItems(_, _, _, _)
RegisterItems(items, i, entry_type, st) ==
    IF i > Len(items) THEN st
    ELSE RegisterItems(items, i + 1, entry_type, RegisterItem(items[i], entry_type, st))

\* process_entries(entries, entry_type, added_nodes), with net.nodes threaded
process_entries(entries, entry_type, ns, added) ==
    LET st0 == [nodes |-> ns, added |-> added, item_nodes |-> <<>>] IN
    IF ~Missing(entries)
    THEN RegisterItems(split(entries), 1, entry_type, st0)
    ELSE st0

\* lines 128-129: the add_edge calls from `node` to the items of one other column
PairCalls(node, others) == [n \in 1..Len(others) |-> <<node, others[n]>>]

\* lines 126-129: the calls from `node` (of column Keys[k]) to the items of the
\* other columns, other_key running from Keys[j] on
RECURSIVE OtherCalls(_, _, _, _)
OtherCalls(node, k, j, dict) ==
    IF j > Len(Keys) THEN <<>>
    ELSE (IF j = k THEN <<>> ELSE PairCalls(node, dict[Keys[j]]))
         \o OtherCalls(node, k, j + 1, dict)

\* lines 123-129: the calls for the items of column Keys[k], from item n on
RECURSIVE NodeCalls(_, _, _, _)
NodeCalls(core, k, n, dict) ==
    IF n > Len(dict[Keys[k]]) THEN <<>>
    ELSE <<<<core, dict[Keys[k]][n]>>>>
         \o OtherCalls(dict[Keys[k]][n], k, 1, dict)
         \o NodeCalls(core, k, n + 1, dict)

\* lines 122-129: the add_edge calls of one row, in order, column Keys[k] on
RECURSIVE RowCalls(_, _, _)
RowCalls(core, k, dict) ==
    IF k > Len(Keys) THEN <<>>
    ELSE NodeCalls(core, k, 1, dict) \o RowCalls(core, k + 1, dict)

\* net.edges after the first n of the calls
RECURSIVE AddAll(_, _, _)
AddAll(es, calls, n) ==
    IF n = 0 THEN es
    ELSE add_edge(AddAll(es, calls, n - 1), calls[n][1], calls[n][2])

\* RowEdges leaving out a pair the graph already holds, in either direction
RowEdgesOnce(es, core, dict) ==
    LET calls == RowCalls(core, 1, dict)
        Same(p, q) == p = q \/ p = <<q[2], q[1]>>
        keep == {i \in 1..Len(calls) :
                    /\ \A j \in 1..Len(es) : ~Same(es[j], calls[i])
                    /\ \A j \in 1..(i - 1) : ~Same(calls[j], calls[i])}
    IN es \o [k \in 1..Cardinality(keep) |->
                 calls[CHOOSE i \in keep : Cardinality({j \in keep : j < i}) = k - 1]]

\* lines 121-129: net.edges after the edges of one row
RowEdges(es, core, dict) ==
    LET calls == RowCalls(core, 1, dict) IN AddAll(es, calls, Len(calls))

\* ------------------------------------------------------------- the build
NoCall == [entries |-> EMPTY, entry_type |-> "Domain", added |-> {}]
NoRet == [returned |-> FALSE, item_nodes |-> <<>>, added |-> {}]
EmptyDict == [k \in KeySet |-> <<>>]

Init ==
    /\ project_data \in Datasets
    /\ descriptor_frequency = <<>>
    /\ max_frequency = 0
    /\ added_nodes = {}
    /\ nodes = <<>>
    /\ edges = <<>>
    /\ entries_dict = EmptyDict
    /\ row = 1
    /\ key = 1
    /\ pc = "start"
    /\ call = NoCall
    /\ ret = NoRet

\* lines 100-105: the frequency pre-pass.  max() of an empty sequence raises
\* ValueError, which nothing catches: the script ends there.
CountFrequencies ==
    /\ pc = "start"
    /\ descriptor_frequency' = Counter(project_data)
    /\ IF DescriptorCells(project_data) = {}
       THEN /\ pc' = "failed"
            /\ UNCHANGED max_frequency
       ELSE /\ max_frequency' =
                   Max({descriptor_frequency'[d] : d \in DOMAIN descriptor_frequency'})
            /\ pc' = "anchor"
    /\ UNCHANGED <<project_data, added_nodes, nodes, edges, entries_dict, row, key,
                   call, ret>>

\* lines 107-116: take the next row and register its anchor value
AnchorNode ==
    /\ pc = "anchor"
    /\ row <= Len(project_data)
    /\ LET st == RegisterAnchor(project_data[row][Anchor], descriptor_frequency,
                                max_frequency, [nodes |-> nodes, added |-> added_nodes])
       IN /\ nodes' = st.nodes
          /\ added_nodes' = st.added
    /\ entries_dict' = EmptyDict
    /\ key' = 1
    /\ pc' = "entries"
    /\ UNCHANGED <<project_data, descriptor_frequency, max_frequency, edges, row,
                   call, ret>>

\* lines 117-119: one turn of the loop over the satellite columns
ProcessEntries ==
    /\ pc = "entries"
    /\ LET st == process_entries(project_data[row][Keys[key]], Keys[key], nodes,
                                 added_nodes)
       IN /\ nodes' = st.nodes
          /\ added_nodes' = st.added
          /\ entries_dict' = [entries_dict EXCEPT ![Keys[key]] = st.item_nodes]
    /\ IF key < Len(Keys)
       THEN key' = key + 1 /\ pc' = "entries"
       ELSE key' = key /\ pc' = "edges"
    /\ UNCHANGED <<project_data, descriptor_frequency, max_frequency, edges, row,
                   call, ret>>

\* lines 121-129: the edges of the row, then on to the next row
AddEdges ==
    /\ pc = "edges"
    /\ edges' = RowEdges(edges, project_data[row][Anchor], entries_dict)
    /\ row' = row + 1
    /\ pc' = IF row < Len(project_data) THEN "anchor" ELSE "export"
    /\ UNCHANGED <<project_data, descriptor_frequency, max_frequency, added_nodes,
                   nodes, entries_dict, key, call, ret>>

\* lines 131-177: options set, the HTML generated and written; the graph is finished
Export ==
    /\ pc = "export"
    /\ pc' = "done"
    /\ UNCHANGED <<project_data, descriptor_frequency, max_frequency, added_nodes,
                   nodes, edges, entries_dict, row, key, call, ret>>

Next == CountFrequencies \/ AnchorNode \/ ProcessEntries \/ AddEdges \/ Export

Spec == Init /\ [][Next]_vars

\* ------------------------------------------------- process_entries on its own
Chars == {"a", "n", ",", " "}
Strings == UNION {[1..m -> Chars] : m \in 0..MaxLen}
SeenSets == SUBSET {<<"a">>, <<"n">>, <<"a", "n">>}

InitCall ==
    /\ call \in [entries : Strings, entry_type : KeySet, added : SeenSets]
    /\ ret = NoRet
    /\ project_data = <<>>
    /\ descriptor_frequency = <<>>
    /\ max_frequency = 0
    /\ added_nodes = {}
    /\ nodes = <<>>
    /\ edges = <<>>
    /\ entries_dict = EmptyDict
    /\ row = 1
    /\ key = 1
    /\ pc = "call"

\* lines 179-192: one call of process_entries, on any cell and any seen-label set
CallProcessEntries ==
    /\ pc = "call"
    /\ ~ret.returned
    /\ LET st == process_entries(call.entries, call.entry_type, <<>>, call.added)
       IN ret' = [returned |-> TRUE, item_nodes |-> st.item_nodes, added |-> st.added]
    /\ UNCHANGED <<project_data, descriptor_frequency, max_frequency, added_nodes,
                   nodes, edges, entries_dict, row, key, pc, call>>

NextCall == CallProcessEntries

SpecCall == InitCall /\ [][NextCall]_vars

\* ------------------------------------------------------------- claims
\* What the claims say of a cell, stated from the text of the cell alone.
\* The k-th comma-separated piece lies between two consecutive separators.
Separators(s) == {0} \cup {i \in 1..Len(s) : s[i] = ","} \cup {Len(s) + 1}

PieceAt(s, p) ==
    LET q == CHOOSE x \in Separators(s) :
                 x > p /\ \A y \in Separators(s) : y > p => x <= y
    IN SubSeq(s, p + 1, q - 1)

Pieces(s) ==
    LET starts == Separators(s) \ {Len(s) + 1}
    IN [k \in 1..Cardinality(starts) |->
           PieceAt(s, CHOOSE p \in starts : Cardinality({x \in starts : x < p}) = k - 1)]

Trimmed(t) ==
    LET inked == {i \in 1..Len(t) : t[i] # " "} IN
    IF inked = {} THEN <<>>
    ELSE SubSeq(t, CHOOSE i \in inked : \A j \in inked : i <= j,
                   CHOOSE i \in inked : \A j \in inked : j <= i)

NonEmpty(t) == t # <<>>

CleanItems(s) ==
    IF s = NAN \/ s = EMPTY THEN <<>>
    ELSE LET pieces == Pieces(s)
             trimmed == [k \in 1..Len(pieces) |-> Trimmed(pieces[k])]
         IN SelectSeq(trimmed, NonEmpty)

\* C8: process_entries returns the empty list for 'nan' and '', and otherwise the
\* comma-split pieces, trimmed, the empty ones dropped, in order and with
\* duplicates kept, whatever the seen-label set holds.
C8_ProcessEntriesReturns ==
    ret.returned => ret.item_nodes = CleanItems(call.entries)

\* a cell with padding and a repeated item, the item already registered
C8_Witness ==
    /\ ret.returned
    /\ call.entries = <<" ", "a", ",", "a">>
    /\ <<"a">> \in call.added
    /\ ret.item_nodes = <<<<"a">>, <<"a">>>>

\* ---- what the claims say of a dataset, stated from its cells alone
Range(f) == {f[i] : i \in DOMAIN f}

\* the labels of row r under column c
LabelsAt(r, c) ==
    IF c = Anchor
    THEN (IF r[c] = NAN \/ r[c] = EMPTY THEN {} ELSE {r[c]})
    ELSE Range(CleanItems(r[c]))

AllLabels(data) == UNION {LabelsAt(data[i], c) : i \in 1..Len(data), c \in Columns}

\* position of a column in the scan of a row: the anchor, then Keys in order
ScanIndex(c) == IF c = Anchor THEN 0 ELSE CHOOSE j \in 1..Len(Keys) : Keys[j] = c

\* the labels of a dataset, by row and column
LabelTable(data) == [i \in 1..Len(data) |-> [c \in Columns |-> LabelsAt(data[i], c)]]

\* the places (row, column) where a label appears in such a table
Places(L, label) == {p \in (DOMAIN L) \X Columns : label \in L[p[1]][p[2]]}

\* the column of the first of a set of places, in row-then-column scan order
FirstCategory(places) ==
    LET first == CHOOSE p \in places :
                     \A q \in places :
                         \/ p[1] < q[1]
                         \/ p[1] = q[1] /\ ScanIndex(p[2]) <= ScanIndex(q[2])
    IN first[2]

NodeIds(ns) == {ns[i].id : i \in 1..Len(ns)}

\* C1: one node per label, whatever the category; a node is created on the first
\* encounter of its label only, and no step changes a node that exists.
C1_OneNodePerLabel ==
    [][/\ \A i, j \in 1..Len(nodes') : nodes'[i].id = nodes'[j].id => i = j
       /\ Len(nodes') >= Len(nodes)
       /\ \A i \in 1..Len(nodes) : nodes'[i] = nodes[i]
       /\ \A i \in (Len(nodes) + 1)..Len(nodes') : nodes'[i].id \notin NodeIds(nodes)
       /\ added_nodes' = NodeIds(nodes')]_vars

\* label a met as anchor value and again as Questionnaire item of the same row
C1_Witness ==
    /\ pc = "edges"
    /\ row = 1
    /\ project_data[1][Anchor] = <<"a">>
    /\ project_data[1]["Questionnaire"] = <<"a">>
    /\ Cardinality({i \in 1..Len(nodes) : nodes[i].id = <<"a">>}) = 1

\* C2: a node of the finished graph has the color, shape and size of the first
\* category its label appears under, in row-then-column scan order.
C2_FirstCategoryWins ==
    pc = "done" =>
        \A L \in {LabelTable(project_data)} :
            \A i \in 1..Len(nodes) :
                \A places \in {Places(L, nodes[i].id)} :
                    /\ places # {}
                    /\ \A cat \in {FirstCategory(places)} :
                           /\ nodes[i].color = color_map[cat]
                           /\ nodes[i].shape = shape_map[cat]
                           /\ cat # Anchor =>
                                  nodes[i].size.num = FixedSize * nodes[i].size.den
                           /\ cat = Anchor =>
                                  nodes[i].size.num * max_frequency
                                      = SizeScale * descriptor_frequency[nodes[i].id]
                                            * nodes[i].size.den

\* a: Domain item of row 1, then anchor of row 2; b: anchor of row 1, then
\* Domain item of the same row
C2_Witness ==
    /\ pc = "done"
    /\ Len(project_data) = 2
    /\ project_data[1][Anchor] = <<"b">>
    /\ project_data[1]["Domain"] = <<"b", ",", " ", "a">>
    /\ project_data[2][Anchor] = <<"a">>
    /\ \E i, j \in 1..Len(nodes) :
           /\ nodes[i].id = <<"a">> /\ nodes[i].shape = "ellipse"
           /\ nodes[i].size = Size(FixedSize, 1)
           /\ nodes[j].id = <<"b">> /\ nodes[j].shape = "dot"

\* C7: the finished graph has as many nodes as there are distinct non-missing
\* labels in the six columns together.
C7_NodeCount ==
    pc = "done" => Len(nodes) = Cardinality(AllLabels(project_data))

\* label b is an anchor value, a Domain item and a PI Name item; 4 labels in all
C7_Witness ==
    /\ pc = "done"
    /\ \E i \in 1..Len(project_data) :
           /\ project_data[i][Anchor] = <<"b">>
           /\ <<"b">> \in LabelsAt(project_data[i], "Domain")
           /\ <<"b">> \in LabelsAt(project_data[i], "PI Name")
    /\ Len(nodes) = 4

\* ---- edges
\* the number of items a row has under column Keys[j]
ItemCount(r, j) == Len(CleanItems(r[Keys[j]]))

RECURSIVE SumOver(_, _)
SumOver(f, S) ==
    IF S = {} THEN 0
    ELSE LET x == CHOOSE y \in S : TRUE IN f[x] + SumOver(f, S \ {x})

KeyPairs == {p \in (1..Len(Keys)) \X (1..Len(Keys)) : p[1] < p[2]}

\* sum(ci) anchor edges plus ci*cj cross edges for every unordered pair of columns
ClaimedRowEdges(r) ==
    SumOver([j \in 1..Len(Keys) |-> ItemCount(r, j)], 1..Len(Keys))
    + SumOver([p \in KeyPairs |-> ItemCount(r, p[1]) * ItemCount(r, p[2])], KeyPairs)

\* C3: a row with a present anchor value adds sum(ci) anchor edges and, for every
\* unordered pair of categories, ci*cj cross edges.
C3_RowEdgeCount ==
    [][(pc = "edges" /\ ~Missing(project_data[row][Anchor]))
           => Len(edges') = Len(edges) + ClaimedRowEdges(project_data[row])]_vars

\* the edges a step appends
NewEdges(old, new) == {new[i] : i \in (Len(old) + 1)..Len(new)}

\* C4: a row whose anchor cell is missing does not stop the build, has the items
\* of its satellite columns registered, and adds no edge that ends at the anchor
\* cell's value.
C4_MissingAnchorRow ==
    [][(pc = "edges" /\ Missing(project_data[row][Anchor]))
           => /\ pc' # "failed"
              /\ \A c \in KeySet : LabelsAt(project_data[row], c) \subseteq added_nodes'
              /\ \A e \in NewEdges(edges, edges') :
                     ~Missing(e[1]) /\ ~Missing(e[2])]_vars

\* C5: with no valid value to count, the pre-pass does not raise: the largest
\* count defaults to 1 and the build goes on.
C5_EmptyAnchorSet ==
    (pc # "start" /\ DescriptorCells(project_data) = {})
        => (pc # "failed" /\ max_frequency = 1)

\* the number of rows whose anchor cell is x
AnchorCount(data, x) == Cardinality({i \in 1..Len(data) : data[i][Anchor] = x})

AnchorValues(data) == {data[i][Anchor] : i \in 1..Len(data)} \ {NAN, EMPTY}

\* C6: the node of anchor value X has size 30 * count(X) / max_count, both numbers
\* taken over the anchor column alone.
C6_AnchorSize ==
    \A i \in 1..Len(nodes) :
        nodes[i].shape = shape_map[Anchor] =>
            LET best == Max({AnchorCount(project_data, x) : x \in AnchorValues(project_data)})
            IN nodes[i].size.num * best
                   = SizeScale * AnchorCount(project_data, nodes[i].id) * nodes[i].size.den

\* C10: both ends of every edge handed to add_edge are registered labels.
C10_EdgeEndsRegistered ==
    \A i \in 1..Len(edges) : edges[i][1] \in added_nodes /\ edges[i][2] \in added_nodes

\* L[c] being the labels of a row under column c, the row pairs x with y: x its
\* anchor value and y one of its items, or the two items of different columns
Pairs(L, x, y) ==
    \/ x \in L[Anchor] /\ \E c \in KeySet : y \in L[c]
    \/ \E c, d \in KeySet : c # d /\ x \in L[c] /\ y \in L[d]

Produces(r, x, y) ==
    LET L == [c \in Columns |-> LabelsAt(r, c)] IN Pairs(L, x, y) \/ Pairs(L, y, x)

Occurrences(es, x, y) ==
    Cardinality({i \in 1..Len(es) : es[i] = <<x, y>> \/ es[i] = <<y, x>>})

RowLabels(r) == {r[Anchor]} \cup UNION {LabelsAt(r, c) : c \in KeySet}

\* every pair is in the edge sequence once for each finished row that produces it
NotDeduplicated(data, es, done) ==
    \A L \in {[i \in 1..done |-> [c \in Columns |-> LabelsAt(data[i], c)]]} :
        \A x, y \in UNION {L[i][c] : i \in 1..done, c \in Columns} :
            Occurrences(es, x, y)
                >= Cardinality({i \in 1..done : Pairs(L[i], x, y) \/ Pairs(L[i], y, x)})

====
